---- MODULE Spec2Model ----
(***************************************************************************)
(* Context-budget manager and generation pipeline of the local LLM chat    *)
(* interface: ChatHistoryManager (chat_manager.py), ContextFileManager     *)
(* (context_manager.py), ModelManager._format_messages (model_manager.py)  *)
(* and the chat / regenerate handlers of app.py.                           *)
(*                                                                         *)
(* Text is modelled by what the code reads of it: a content is a record    *)
(* with the sequence of its parts (text), its length in characters (len),  *)
(* the set of trigger phrases that occur in its lower-cased form (kws) and *)
(* the whitespace-separated tokens that follow the first "my name is"      *)
(* (after).  Times are whole seconds, the resolution of the strftime       *)
(* patterns that build session ids and file names.                         *)
(***************************************************************************)
EXTENDS Integers, Sequences, FiniteSets, TLC

\* ---------------------------------------------------------------- bounds
MaxTime == 2
MaxTurns == 2
MaxSummaries == 2
SeedLen == 20
MaxCalls == 1
MaxConcurrent == 2
MaxFragments == 3
MaxCount == 5
MaxNotes == 3
MaxLog == 22
NamedWithin == 4
MaxLines == 2

\* ------------------------------------------------------ program constants
auto_context_threshold == 80
auto_context_create_threshold == 90
CharsPerToken == 4
MessageOverhead == 5
KeepLast == 20
chunk_size == 10
TopicChars == 100
SubstantialChars == 200
PreviewChars == 150
AUTO_SAVE_INTERVAL == 5
FormatReserve == 200
GenerationReserve == 50
MinNewTokens == 10
WarnMsgBase == 318
AutoMsgBase == 274
PrefixRuleLen == 7
NotLoadedLen == 36
ContextFullLen == 67
ErrorMarkerLen == 45
RoleAllowance == 20

memory_keywords ==
  << "my name is", "i like", "i prefer", "i hate", "i dislike",
     "remember that", "important:", "note:", "keep in mind", "always",
     "never", "i am", "i work", "i use" >>

\* ------------------------------------------------------------------ text
Min(a, b) == IF a < b THEN a ELSE b

Content(text, len, kws, after) ==
  [text |-> text, len |-> len, kws |-> kws, after |-> after]

Plain(part, len) == Content(<<part>>, len, {}, <<>>)

Empty == Content(<<>>, 0, {}, <<>>)

\* s1 + s2 for an assistant response: only text and length are read of it
Concat(a, b) == Content(a.text \o b.text, a.len + b.len, {}, <<>>)

\* content[:n]
Slice(c, n) == [text |-> c.text, len |-> Min(c.len, n)]

\* str.strip(".,!?") and str.title() on the tokens the inputs contain
StripPunct(tok) ==
  CASE tok = "avery." -> "avery"
    [] tok = "!?"     -> ""
    [] OTHER          -> tok

Title(tok) ==
  CASE tok = "avery"     -> "Avery"
    [] tok = "blake"     -> "Blake"
    [] tok = "user_name" -> "User_Name"
    [] tok = "user name" -> "User Name"
    [] OTHER             -> tok

\* key.replace('_', ' ')
Unscore(key) == IF key = "user_name" THEN "user name" ELSE key

\* the user's inputs
Filler == Plain("tell me more", 13)
NameMsg == Content(<<"My name is Avery.">>, 17, {"my name is"}, <<"avery.">>)
BigMsg == Plain("pasted document", 6400)

UserInputs == {NameMsg, BigMsg}

\* more of what a user can write
OtherNameMsg == Content(<<"my name is blake">>, 16, {"my name is"}, <<"blake">>)
NoNameMsg == Content(<<"Guess what my name is">>, 21, {"my name is"}, <<>>)
TwoNotesMsg == Content(<<"Remember that I like tea">>, 24, {"remember that", "i like"}, <<>>)

\* what the backend produces
ShortReply == Plain("reply", 40)

BackendOutputs == {ShortReply}

\* personality_params as the handlers build them from the UI controls
Params(sp, mt, cw) == [system_prompt |-> sp, max_tokens |-> mt, context_window |-> cw]

ParamSet == {Params(40, 1024, 4096), Params(13600, 1024, 4096)}

DefaultParams == Params(40, 512, 12288)

\* --------------------------------------------------------------- session
None == [id |-> -1]

Message(role, content, t) == [role |-> role, content |-> content, timestamp |-> t]

NewSession(t) ==
  [ id |-> t, created_at |-> t, last_updated |-> t,
    personality |-> DefaultParams, messages |-> <<>>,
    context_files |-> <<>>, memory_items |-> <<>>,
    important_facts |-> [k \in {} |-> ""], topics_discussed |-> <<>>,
    message_count |-> 0 ]

\* a session persisted by an earlier run: SeedLen short messages, turn by turn
SeedSession ==
  [ NewSession(0) EXCEPT
      !.messages = [i \in 1..SeedLen |->
                      IF i % 2 = 1 THEN Message("user", Filler, 0)
                                   ELSE Message("assistant", ShortReply, 0)],
      !.message_count = SeedLen ]

\* ------------------------------------------------- ChatHistoryManager
RECURSIVE MessageTokens(_)
MessageTokens(messages) ==
  IF messages = <<>> THEN 0
  ELSE (Head(messages).content.len \div CharsPerToken) + MessageOverhead
         + MessageTokens(Tail(messages))

\* percentage >= threshold, with percentage = used / total and the threshold
\* in hundredths (the float quotient and the literals 0.80, 0.90 order the same
\* way as the exact fractions for every used and total the model reaches)
AtLeast(used, total, threshold) == used * 100 >= threshold * total

should_warn_flag_blind(used, total, shown) ==
  AtLeast(used, total, auto_context_threshold)

should_warn(used, total, shown) ==
  AtLeast(used, total, auto_context_threshold) /\ ~shown

should_auto_create_late(used, total) ==
  AtLeast(used, total, auto_context_create_threshold + 10)

should_auto_create(used, total) ==
  AtLeast(used, total, auto_context_create_threshold)

estimate_context_usage(session, shown, personality_params) ==
  IF session = None
    THEN [used |-> 0, total |-> 0, should_warn |-> FALSE, should_auto_create |-> FALSE]
    ELSE LET context_window == personality_params.context_window
             system_tokens == personality_params.system_prompt \div CharsPerToken
             message_tokens == MessageTokens(session.messages)
             context_file_tokens == 0
             used_tokens == system_tokens + message_tokens + context_file_tokens
         IN  [ used |-> used_tokens, total |-> context_window,
               should_warn |-> should_warn(used_tokens, context_window, shown),
               should_auto_create |-> should_auto_create(used_tokens, context_window) ]

\* ---- the digest of _auto_create_context_file
KeyInformationMany(session) ==
  IF Cardinality(DOMAIN session.important_facts) > 1
    THEN { [label |-> Title(Unscore(k)), value |-> session.important_facts[k]] :
             k \in DOMAIN session.important_facts }
    ELSE {}

KeyInformation(session) ==
  { [label |-> Title(Unscore(k)), value |-> session.important_facts[k]] :
      k \in DOMAIN session.important_facts }

ImportantNotes(session) ==
  [i \in 1..Len(session.memory_items) |-> session.memory_items[i].content]

NumChunks(messages) == (Len(messages) + chunk_size - 1) \div chunk_size

\* messages[i:i+chunk_size] for i = j * chunk_size
Chunk(messages, j) ==
  SubSeq(messages, j * chunk_size + 1, Min(j * chunk_size + chunk_size, Len(messages)))

UserMessages(chunk) == SelectSeq(chunk, LAMBDA m : m.role = "user")

Substantial(chunk) == SelectSeq(chunk, LAMBDA m : m.content.len > SubstantialChars)

ChunkEntry(messages, j) ==
  LET chunk == Chunk(messages, j)
      points == Substantial(chunk)
  IN  [ first |-> j * chunk_size + 1,
        last |-> j * chunk_size + Len(chunk),
        topic |-> Slice(UserMessages(chunk)[1].content, TopicChars),
        points |-> [k \in 1..Len(points) |->
                      [role |-> points[k].role,
                       preview |-> Slice(points[k].content, PreviewChars)]] ]

ConversationSummary(messages) ==
  LET all == [k \in 1..NumChunks(messages) |-> k - 1]
      with_user == SelectSeq(all, LAMBDA j : UserMessages(Chunk(messages, j)) # <<>>)
  IN  [k \in 1..Len(with_user) |-> ChunkEntry(messages, with_user[k])]

SummaryContentRunStamped(session, t) ==
  [ created |-> t,
    session |-> t,
    key_information |-> KeyInformation(session),
    important_notes |-> ImportantNotes(session),
    conversation |-> ConversationSummary(session.messages) ]

SummaryContent(session, t) ==
  [ created |-> t,
    session |-> session.id,
    key_information |-> KeyInformation(session),
    important_notes |-> ImportantNotes(session),
    conversation |-> ConversationSummary(session.messages) ]

\* f"auto_context_{now:%Y%m%d_%H%M%S}.txt"
AutoFileName(t) == [stem |-> "auto_context", stamp |-> t, ext |-> ".txt"]

NoFile == [stem |-> "None", stamp |-> -1, ext |-> ""]

\* ---- ContextFileManager.create_context_file, name and category given;
\* ok is whether open and write succeed
FilePath(name, category) == <<category, name>>

create_context_file(store, content, name, category, ok) ==
  IF ok
    THEN [ store |-> [p \in DOMAIN store \cup {FilePath(name, category)} |->
                        IF p = FilePath(name, category) THEN content ELSE store[p]],
           path |-> FilePath(name, category) ]
    ELSE [ store |-> store, path |-> FilePath(NoFile, "None") ]

\* messages kept by "Clear older messages (keep last 20)"
KeptMessagesHead(messages) ==
  IF Len(messages) > KeepLast THEN SubSeq(messages, 1, KeepLast) ELSE messages

KeptMessages(messages) ==
  IF Len(messages) > KeepLast
    THEN SubSeq(messages, Len(messages) - KeepLast + 1, Len(messages))
    ELSE messages

_auto_create_context_file_pruning(session, shown, store, t, ok) ==
  LET summary_content == SummaryContent(session, t)
      filename == AutoFileName(t)
      created == create_context_file(store, summary_content, filename, "auto_generated", ok)
  IN  [ session |-> [session EXCEPT !.messages = KeptMessages(@),
                                    !.memory_items = <<>>],
        shown |-> IF Len(session.messages) > KeepLast THEN FALSE ELSE shown,
        store |-> created.store,
        filename |-> filename,
        content |-> summary_content,
        written |-> ok ]

\* _auto_create_context_file: the digest, its file, and the log cut to the
\* last 20 messages
_auto_create_context_file(session, shown, store, t, ok) ==
  LET summary_content == SummaryContent(session, t)
      filename == AutoFileName(t)
      created == create_context_file(store, summary_content, filename, "auto_generated", ok)
  IN  [ session |-> [session EXCEPT !.messages = KeptMessages(@)],
        shown |-> IF Len(session.messages) > KeepLast THEN FALSE ELSE shown,
        store |-> created.store,
        filename |-> filename,
        content |-> summary_content,
        written |-> ok ]

\* line 90: self.context_warning_shown = False  # Reset for next cycle
ResetForNextCycleMissing(shown) == shown

ResetForNextCycle(shown) == FALSE

\* round(percentage * 100) as "{:.0f}" prints it (ties to even)
RoundPercent(used, total) ==
  LET q == (used * 100) \div total
      r == (used * 100) % total
  IN  IF 2 * r < total THEN q
      ELSE IF 2 * r > total THEN q + 1
      ELSE IF q % 2 = 0 THEN q ELSE q + 1

RECURSIVE Digits(_)
Digits(n) == IF n < 10 THEN 1 ELSE 1 + Digits(n \div 10)

\* len(f"{n:,}")
CommaLen(n) == Digits(n) + ((Digits(n) - 1) \div 3)

NumbersLen(used, total) ==
  Digits(RoundPercent(used, total)) + CommaLen(used) + CommaLen(total)

\* the result of check_context_limit and the state it leaves
check_context_limit(session, shown, store, personality_params, t, ok) ==
  LET u == estimate_context_usage(session, shown, personality_params)
  IN  IF u.should_auto_create
        THEN LET a == _auto_create_context_file(session, shown, store, t, ok)
             IN  [ kind |-> "SUMMARIZE", session |-> a.session,
                   shown |-> ResetForNextCycle(a.shown), store |-> a.store,
                   warning_msg |-> Plain("auto-created notice",
                                         AutoMsgBase + NumbersLen(u.used, u.total)),
                   file |-> a.filename, content |-> a.content, written |-> a.written ]
      ELSE IF u.should_warn
        THEN [ kind |-> "WARN", session |-> session, shown |-> TRUE, store |-> store,
               warning_msg |-> Plain("filling-up warning",
                                     WarnMsgBase + NumbersLen(u.used, u.total)),
               file |-> NoFile, content |-> NoFile, written |-> FALSE ]
      ELSE [ kind |-> "NORMAL", session |-> session, shown |-> shown, store |-> store,
             warning_msg |-> Empty, file |-> NoFile, content |-> NoFile,
             written |-> FALSE ]

\* ---- add_message and _extract_memory
LastKeyword(content) ==
  LET hits == {i \in 1..Len(memory_keywords) : memory_keywords[i] \in content.kws}
  IN  IF hits = {} THEN 0 ELSE CHOOSE i \in hits : \A j \in hits : j <= i

\* the first keyword of the list that is in the content, 0 if none is
FirstKeyword(content) ==
  LET hits == {i \in 1..Len(memory_keywords) : memory_keywords[i] \in content.kws}
  IN  IF hits = {} THEN 0 ELSE CHOOSE i \in hits : \A j \in hits : i <= j

SetFactOnce(facts, key, value) ==
  [k \in DOMAIN facts \cup {key} |-> IF k \in DOMAIN facts THEN facts[k] ELSE value]

\* important_facts[key] = value
SetFact(facts, key, value) ==
  [k \in DOMAIN facts \cup {key} |-> IF k = key THEN value ELSE facts[k]]

_extract_memory_blank(session, content, t) ==
  LET k == FirstKeyword(content)
      item == [content |-> content, keyword |-> memory_keywords[k], timestamp |-> t]
      noted == [session EXCEPT !.memory_items = Append(@, item)]
  IN  IF k = 0 THEN session
      ELSE IF memory_keywords[k] = "my name is"
        THEN [noted EXCEPT !.important_facts =
                SetFact(@, "user_name",
                        IF content.after = <<>> THEN ""
                        ELSE Title(StripPunct(content.after[1])))]
      ELSE noted

_extract_memory_first(session, content, t) ==
  LET k == FirstKeyword(content)
      item == [ content |-> session.messages[1].content,
                keyword |-> memory_keywords[k], timestamp |-> t ]
      noted == [session EXCEPT !.memory_items = Append(@, item)]
  IN  IF k = 0 THEN session
      ELSE IF memory_keywords[k] = "my name is" /\ content.after # <<>>
        THEN [noted EXCEPT !.important_facts =
                SetFact(@, "user_name", Title(StripPunct(content.after[1])))]
      ELSE noted

\* _extract_memory(content) on the session
_extract_memory(session, content, t) ==
  LET k == FirstKeyword(content)
      item == [content |-> content, keyword |-> memory_keywords[k], timestamp |-> t]
      noted == [session EXCEPT !.memory_items = Append(@, item)]
  IN  IF k = 0 THEN session
      ELSE IF memory_keywords[k] = "my name is" /\ content.after # <<>>
        THEN [noted EXCEPT !.important_facts =
                SetFact(@, "user_name", Title(StripPunct(content.after[1])))]
      ELSE noted

create_session(t) == [session |-> NewSession(t), message_count |-> 0]

add_message_twice(session, count, role, content, t) ==
  LET base == IF session = None THEN create_session(t)
              ELSE [session |-> session, message_count |-> count]
      once == [base.session EXCEPT
                 !.messages = Append(@, Message(role, content, t)),
                 !.last_updated = t,
                 !.message_count = @ + 1]
      appended == IF role = "assistant"
                    THEN [once EXCEPT !.messages = Append(@, Message(role, content, t))]
                    ELSE once
      counted == base.message_count + 1
  IN  [ session |-> IF role = "user" THEN _extract_memory(appended, content, t)
                    ELSE appended,
        message_count |-> counted,
        autosave |-> counted % AUTO_SAVE_INTERVAL = 0 ]

\* add_message up to the auto-save test; autosave is that test
add_message(session, count, role, content, t) ==
  LET base == IF session = None THEN create_session(t)
              ELSE [session |-> session, message_count |-> count]
      appended == [base.session EXCEPT
                     !.messages = Append(@, Message(role, content, t)),
                     !.last_updated = t,
                     !.message_count = @ + 1]
      counted == base.message_count + 1
  IN  [ session |-> IF role = "user" THEN _extract_memory(appended, content, t)
                    ELSE appended,
        message_count |-> counted,
        autosave |-> counted % AUTO_SAVE_INTERVAL = 0 ]

\* the keys of the session dict, in the order create_session writes them
SessionKeys ==
  << "id", "created_at", "last_updated", "personality", "messages",
     "context_files", "memory_items", "important_facts", "topics_discussed",
     "message_count" >>

FactKeys == << "user_name" >>

\* a dict as the JSON object json.dump writes: its keys in order, each with its
\* value; lists, strings and numbers are written as they are
JsonObject(dict, keys) ==
  LET present == SelectSeq(keys, LAMBDA k : k \in DOMAIN dict)
  IN  [i \in 1..Len(present) |-> << present[i], dict[present[i]] >>]

\* the dict json.load builds of an object: a key that occurs twice keeps its
\* last value
JsonDict(object) ==
  [k \in {object[i][1] : i \in DOMAIN object} |->
     object[CHOOSE i \in DOMAIN object :
              /\ object[i][1] = k
              /\ \A j \in DOMAIN object : object[j][1] = k => j <= i][2]]

json_dump_shallow(session) ==
  JsonObject([session EXCEPT !.important_facts = <<>>], SessionKeys)

\* json.dump(self.current_session, f)
json_dump(session) ==
  JsonObject([session EXCEPT !.important_facts = JsonObject(@, FactKeys)], SessionKeys)

\* json.load(f)
json_load(document) ==
  LET dict == JsonDict(document)
  IN  [dict EXCEPT !.important_facts = JsonDict(@)]

save_session_late(session, records, ok) ==
  IF session = None \/ ~ok \/ Len(session.messages) <= 1 THEN records
  ELSE [i \in DOMAIN records \cup {session.id} |->
          IF i = session.id
            THEN json_dump([session EXCEPT
                   !.messages = SubSeq(@, 1, Len(@) - 1)])
            ELSE records[i]]

\* save_session: json.dump of the session under its id; ok is whether it succeeds
save_session(session, records, ok) ==
  IF session = None \/ ~ok THEN records
  ELSE [i \in DOMAIN records \cup {session.id} |->
          IF i = session.id THEN json_dump(session) ELSE records[i]]

\* load_session: the session and the count it leaves, and whether it returned
\* the session (found) or None
load_session(session, count, records, session_id, ok) ==
  IF session_id \in DOMAIN records /\ ok
    THEN LET loaded == json_load(records[session_id])
         IN  [ found |-> TRUE,
               session |-> loaded,
               message_count |-> IF "message_count" \in DOMAIN loaded
                                   THEN loaded.message_count
                                   ELSE Len(loaded.messages) ]
    ELSE [found |-> FALSE, session |-> session, message_count |-> count]

\* ------------------------------------------ ModelManager._format_messages
\* len(f"{role.capitalize()}: {content}\n\n")
MessageTextLen(msg) ==
  (IF msg.role = "user" THEN 4 ELSE 9) + 2 + msg.content.len + 2

\* len(f"System: {system_prompt}\n\n")
HeaderLen(personality_params) == 8 + personality_params.system_prompt + 2

CueLen == 11

\* the loop over reversed(messages): how many of the last messages are included
\* and the length reached, starting from current_length
RECURSIVE IncludeFromEnd(_, _, _, _)
IncludeFromEnd(messages, current_length, available_chars, included) ==
  IF messages = <<>> THEN [included |-> included, length |-> current_length]
  ELSE LET msg == messages[Len(messages)]
       IN  IF current_length + MessageTextLen(msg) < available_chars
             THEN IncludeFromEnd(SubSeq(messages, 1, Len(messages) - 1),
                                 current_length + MessageTextLen(msg),
                                 available_chars, included + 1)
             ELSE [included |-> included, length |-> current_length]

_format_messages(messages, personality_params, context_window) ==
  LET available_tokens == context_window - personality_params.max_tokens - FormatReserve
      available_chars == available_tokens * CharsPerToken
      loop == IncludeFromEnd(messages, HeaderLen(personality_params), available_chars, 0)
  IN  [ included |-> loop.included,
        len |-> loop.length + CueLen,
        max_tokens |-> personality_params.max_tokens,
        context_window |-> context_window ]

NoPrompt == [included |-> 0, len |-> 0, max_tokens |-> 0, context_window |-> 0]

\* ------------------------------------------------------------------ state
VARIABLES
  current_session,        \* chat_manager.current_session, None before the first one
  message_count,          \* chat_manager.message_count
  context_warning_shown,  \* chat_manager.context_warning_shown
  store,                  \* CONTEXT_FILES_DIR: path -> content
  records,                \* CHAT_HISTORY_DIR: session id -> the JSON document of the session
  model_loaded,           \* model_manager.model_loaded
  last_response_data,     \* app.last_response_data
  history,                \* number of pairs in the chatbot's history
  now,                    \* the wall clock, in seconds
  pc,                     \* where the running chat / regenerate handler stands
  turn,                   \* the running handler's locals
  prompt,                 \* the prompt the latest generation was given
  turns,                  \* requests of the user interface so far
  summaries,              \* the runs of _auto_create_context_file so far
  warnings,               \* warnings emitted since the latest SUMMARIZE (up to 2)
  last,                   \* the latest operation and what it returned
  calls,                  \* the calls of generate_response_stream, by arrival
  model,                  \* model_manager.model: "None", "set", or "deleted" by del
  tokenizer,              \* model_manager.tokenizer, likewise
  loader,                 \* where load_model and unload_model stand
  loaded_files            \* context_manager.loaded_files, the cache by name

vars ==
  << current_session, message_count, context_warning_shown, store, records,
     model_loaded, last_response_data, history, now, pc, turn, prompt, turns,
     summaries, warnings, last, calls, model, tokenizer, loader, loaded_files >>

NoTurn ==
  [ params |-> DefaultParams, message |-> Empty, prefix |-> Empty,
    auto_file |-> NoFile, full_response |-> Empty ]

Log == IF current_session = None THEN <<>> ELSE current_session.messages

Init ==
  /\ current_session = None
  /\ message_count = 0
  /\ context_warning_shown = FALSE
  /\ store = [p \in {} |-> NoFile]
  /\ records = [i \in {SeedSession.id} |-> json_dump(SeedSession)]
  /\ model_loaded = FALSE
  /\ last_response_data = [content |-> Empty, user_message |-> Empty]
  /\ history = 0
  /\ now = 1
  /\ pc = "idle"
  /\ turn = NoTurn
  /\ prompt = NoPrompt
  /\ turns = 0
  /\ summaries = <<>>
  /\ warnings = 0
  /\ last = [op |-> "init"]
  /\ calls = <<>>
  /\ model = "None"
  /\ tokenizer = "None"
  /\ loader = [load_model |-> "idle", unload_model |-> "idle"]
  /\ loaded_files = << >>

\* ---------------------------------------------------------------- actions
Tick ==
  /\ now < MaxTime
  /\ now' = now + 1
  /\ UNCHANGED << loaded_files, model, tokenizer, loader, calls, current_session, message_count, context_warning_shown, store,
                  records, model_loaded, last_response_data, history, pc, turn,
                  prompt, turns, summaries, warnings, last >>

\* model_manager.load_model returning normally
LoadModel ==
  /\ pc = "idle"
  /\ ~model_loaded
  /\ tokenizer' = "set"
  /\ model' = "set"
  /\ model_loaded' = TRUE
  /\ last' = [op |-> "load_model"]
  /\ UNCHANGED << loaded_files, loader, calls, current_session, message_count, context_warning_shown, store,
                  records, last_response_data, history, now, pc, turn, prompt,
                  turns, summaries, warnings >>

\* app.new_session
NewSessionClick ==
  /\ pc = "idle"
  /\ turns < MaxTurns
  /\ turns' = turns + 1
  /\ current_session' = create_session(now).session
  /\ message_count' = create_session(now).message_count
  /\ history' = 0
  /\ last' = [op |-> "create"]
  /\ UNCHANGED << loaded_files, model, tokenizer, loader, calls, context_warning_shown, store, records, model_loaded,
                  last_response_data, now, pc, turn, prompt, summaries, warnings >>

\* chat_manager.load_session(session_id); ok is whether open and json.load succeed
LoadSession(session_id, ok) ==
  /\ pc = "idle"
  /\ turns < MaxTurns
  /\ turns' = turns + 1
  /\ LET l == load_session(current_session, message_count, records, session_id, ok)
     IN  /\ current_session' = l.session
         /\ message_count' = l.message_count
         /\ last' = [op |-> "load", found |-> l.found]
  /\ UNCHANGED << loaded_files, model, tokenizer, loader, calls, context_warning_shown, store, records, model_loaded,
                  last_response_data, history, now, pc, turn, prompt, summaries, warnings >>

\* app.get_context_usage
GetContextUsage ==
  /\ pc = "idle"
  /\ LET u == estimate_context_usage(current_session, context_warning_shown, DefaultParams)
     IN  last' = [op |-> "usage", used |-> u.used, total |-> u.total]
  /\ UNCHANGED << loaded_files, model, tokenizer, loader, calls, current_session, message_count, context_warning_shown, store,
                  records, model_loaded, last_response_data, history, now, pc,
                  turn, prompt, turns, summaries, warnings >>

\* chat_manager.check_context_limit(personality_params): the state it leaves and
\* the record of what it returned
CheckEffect(personality_params, ok) ==
  LET c == check_context_limit(current_session, context_warning_shown, store,
                               personality_params, now, ok)
  IN  /\ c.kind = "SUMMARIZE" => Len(summaries) < MaxSummaries
      /\ current_session' = c.session
      /\ context_warning_shown' = c.shown
      /\ store' = c.store
      /\ summaries' =
           IF c.kind = "SUMMARIZE"
             THEN Append(summaries, [ source |-> current_session,
                                      shown |-> context_warning_shown, at |-> now,
                                      file |-> c.file, content |-> c.content ])
             ELSE summaries
      /\ warnings' = CASE c.kind = "SUMMARIZE" -> 0
                        [] c.kind = "WARN" -> Min(warnings + 1, 2)
                        [] OTHER -> warnings
      /\ last' = [ op |-> "check", kind |-> c.kind, params |-> personality_params,
                   warning_msg |-> c.warning_msg, file |-> c.file,
                   written |-> c.written ]

\* check_context_limit called on its own
Check(personality_params, ok) ==
  /\ pc = "idle"
  /\ CheckEffect(personality_params, ok)
  /\ UNCHANGED << loaded_files, model, tokenizer, loader, calls, message_count, records, model_loaded, last_response_data,
                  history, now, pc, turn, prompt, turns >>

\* chat_function_streaming, lines 47-63: a non-blank message, the parameters and
\* the context check
ChatCheck(message, personality_params, ok) ==
  /\ pc = "idle"
  /\ turns < MaxTurns
  /\ turns' = turns + 1
  /\ CheckEffect(personality_params, ok)
  /\ turn' = [ params |-> personality_params,
               message |-> message,
               prefix |-> IF last'.kind = "NORMAL" THEN Empty
                          ELSE Concat(last'.warning_msg, Plain("rule", PrefixRuleLen)),
               auto_file |-> last'.file,
               full_response |-> Empty ]
  /\ pc' = "chat_checked"
  /\ UNCHANGED << loaded_files, model, tokenizer, loader, calls, message_count, records, model_loaded, last_response_data,
                  history, now, prompt >>

\* chat_function_streaming, lines 65-90: add the user message, note the auto file
ChatAddUser(saveOk) ==
  /\ pc = "chat_checked"
  /\ LET a == add_message(current_session, message_count, "user", turn.message, now)
     IN  /\ current_session' =
               IF turn.auto_file # NoFile
                 THEN [a.session EXCEPT !.context_files = Append(@, turn.auto_file)]
                 ELSE a.session
         /\ message_count' = a.message_count
         /\ records' = IF a.autosave THEN save_session(a.session, records, saveOk)
                       ELSE records
  /\ history' = history + 1
  /\ turn' = [turn EXCEPT !.full_response = turn.prefix]
  /\ pc' = "chat_stream"
  /\ last' = [op |-> "add_user"]
  /\ UNCHANGED << loaded_files, model, tokenizer, loader, calls, context_warning_shown, store, model_loaded, last_response_data,
                  now, prompt, turns, summaries, warnings >>

\* the tokenizer's count of the prompt, cut at max_length = context_window; the
\* count is the declared estimate of one token per CharsPerToken characters
PromptLength(p, context_window) == Min(p.len \div CharsPerToken, context_window)

max_new_tokens_unreserved(messages, personality_params) ==
  LET context_window == personality_params.context_window
      p == _format_messages(messages, personality_params, context_window)
  IN  Min(personality_params.max_tokens,
          context_window - PromptLength(p, context_window))

\* max_new_tokens of generate_response_stream for the log and the parameters
max_new_tokens(messages, personality_params) ==
  LET context_window == personality_params.context_window
      p == _format_messages(messages, personality_params, context_window)
  IN  Min(personality_params.max_tokens,
          context_window - PromptLength(p, context_window) - GenerationReserve)

StartOutcomeUnready(loaded, messages, personality_params) ==
  IF max_new_tokens(messages, personality_params) < MinNewTokens THEN "full"
  ELSE "run"

\* generate_response_stream before the thread: the not-loaded return, the
\* context-full return, or the generation
StartOutcome(loaded, messages, personality_params) ==
  IF ~loaded THEN "notice"
  ELSE IF max_new_tokens(messages, personality_params) < MinNewTokens THEN "full"
  ELSE "run"

NotLoadedNotice == Plain("not loaded notice", NotLoadedLen)

ContextFullError == Plain("context full error", ContextFullLen)

\* generate_response_stream, seen from the handler's loop: everything it yields,
\* added to full_response; output is what the backend produces when it runs
Generate(output) ==
  /\ pc \in {"chat_stream", "regen_stream"}
  /\ LET outcome == StartOutcome(model_loaded, Log, turn.params)
         yielded == CASE outcome = "notice" -> NotLoadedNotice
                      [] outcome = "full" -> ContextFullError
                      [] OTHER -> output
     IN  /\ prompt' = IF model_loaded
                        THEN _format_messages(Log, turn.params, turn.params.context_window)
                        ELSE prompt
         /\ turn' = [turn EXCEPT !.full_response = Concat(@, yielded)]
         /\ last' = [op |-> "generate", ran |-> outcome = "run", yielded |-> yielded]
  /\ pc' = IF pc = "chat_stream" THEN "chat_done" ELSE "regen_done"
  /\ UNCHANGED << loaded_files, model, tokenizer, loader, calls, current_session, message_count, context_warning_shown, store,
                  records, model_loaded, last_response_data, history, now, turns,
                  summaries, warnings >>

\* chat_function_streaming, lines 99-110
ChatFinish(saveOk) ==
  /\ pc = "chat_done"
  /\ last_response_data' = [content |-> turn.full_response, user_message |-> turn.message]
  /\ LET a == add_message(current_session, message_count, "assistant",
                          turn.full_response, now)
     IN  /\ current_session' = a.session
         /\ message_count' = a.message_count
         /\ records' = IF a.autosave THEN save_session(a.session, records, saveOk)
                       ELSE records
  /\ pc' = "idle"
  /\ turn' = NoTurn
  /\ prompt' = NoPrompt
  /\ last' = [op |-> "add_assistant"]
  /\ UNCHANGED << loaded_files, model, tokenizer, loader, calls, context_warning_shown, store, model_loaded, history, now, turns,
                  summaries, warnings >>

WithoutLastTurn(messages) ==
  IF messages # <<>> /\ messages[Len(messages)].role = "assistant"
    THEN SubSeq(messages, 1, Len(messages) - 2)
    ELSE messages

\* the log once regenerate_last has removed the last assistant message
WithoutLastAssistant(messages) ==
  IF messages # <<>> /\ messages[Len(messages)].role = "assistant"
    THEN SubSeq(messages, 1, Len(messages) - 1)
    ELSE messages

\* regenerate_last, lines 116-146
RegenStart(personality_params) ==
  /\ pc = "idle"
  /\ turns < MaxTurns
  /\ last_response_data.user_message # Empty
  /\ history > 0
  /\ turns' = turns + 1
  /\ current_session' =
       IF current_session = None THEN current_session
       ELSE [current_session EXCEPT !.messages = WithoutLastAssistant(@)]
  /\ turn' = [NoTurn EXCEPT !.params = personality_params]
  /\ pc' = "regen_stream"
  /\ last' = [op |-> "regen_pop", popped |-> Log' # Log]
  /\ UNCHANGED << loaded_files, model, tokenizer, loader, calls, message_count, context_warning_shown, store, records,
                  model_loaded, last_response_data, history, now, prompt,
                  summaries, warnings >>

\* regenerate_last, lines 154-160
RegenFinish(saveOk) ==
  /\ pc = "regen_done"
  /\ last_response_data' = [last_response_data EXCEPT !.content = turn.full_response]
  /\ LET a == add_message(current_session, message_count, "assistant",
                          turn.full_response, now)
     IN  /\ current_session' = a.session
         /\ message_count' = a.message_count
         /\ records' = IF a.autosave THEN save_session(a.session, records, saveOk)
                       ELSE records
  /\ pc' = "idle"
  /\ turn' = NoTurn
  /\ prompt' = NoPrompt
  /\ last' = [op |-> "add_assistant"]
  /\ UNCHANGED << loaded_files, model, tokenizer, loader, calls, context_warning_shown, store, model_loaded, history, now, turns,
                  summaries, warnings >>

Next ==
  \/ Tick
  \/ LoadModel
  \/ NewSessionClick
  \/ \E id \in DOMAIN records \cup {now}, ok \in BOOLEAN : LoadSession(id, ok)
  \/ GetContextUsage
  \/ \E p \in ParamSet, ok \in BOOLEAN : Check(p, ok)
  \/ \E m \in UserInputs, p \in ParamSet, ok \in BOOLEAN : ChatCheck(m, p, ok)
  \/ \E ok \in BOOLEAN : ChatAddUser(ok)
  \/ \E out \in BackendOutputs : Generate(out)
  \/ \E ok \in BOOLEAN : ChatFinish(ok)
  \/ \E p \in ParamSet : RegenStart(p)
  \/ \E ok \in BOOLEAN : RegenFinish(ok)

Spec == Init /\ [][Next]_vars

\* ---------------------------------------------- the streaming pipeline
\* generate_response_stream and _generate_with_streamer, step by step.  A call
\* is the generator a handler iterates; its worker is generation_thread; its
\* queue is the text queue of the TextIteratorStreamer the two share, unbounded
\* and first-in first-out, with the stop signal as its last item.  The handlers
\* and generate_response_stream hold no lock and test no running generation,
\* and every event listener of the interface runs its handler on its own, so a
\* call can arrive while an earlier one is still streaming.

\* the text fragments the backend emits, in order
TokenName == << "token 1", "token 2", "token 3", "token 4", "token 5" >>

Token(i) == Plain(TokenName[i], 5)

\* f"\n\nError during generation: {exc}"
ErrorMarker == Plain("generation error", ErrorMarkerLen)

Text(content) == [kind |-> "text", content |-> content]

\* streamer.stop_signal
StopSignal == [kind |-> "stop", content |-> Empty]

\* the messages and the parameters a handler passes
StreamRequests ==
  { [messages |-> <<>>, params |-> DefaultParams],
    [messages |-> SeedSession.messages, params |-> Params(16150, 1024, 4096)] }

QueuePutFront(queue, item) == <<item>> \o queue

\* the streamer's text queue takes an item at its tail
QueuePut(queue, item) == Append(queue, item)

QueueGetLast(queue) == queue[Len(queue)]

\* the streamer's text queue gives the item at its head
QueueGet(queue) == Head(queue)

app_vars ==
  << current_session, message_count, context_warning_shown, store, records,
     model_loaded, last_response_data, history, now, pc, turn, prompt, turns,
     summaries, warnings, last, model, tokenizer, loader, loaded_files >>

Calls == 1..Len(calls)

\* generate_response_stream up to its first yield or to the for loop: lines
\* 117-119, 125-146 and 148-175
generate_response_stream(request) ==
  /\ LET outcome == StartOutcome(model_loaded, request.messages, request.params)
     IN  calls' = Append(calls,
           [ request |-> request,
             outcome |-> outcome,
             pc |-> IF outcome = "run" THEN "waiting" ELSE outcome,
             worker |-> IF outcome = "run" THEN "running" ELSE "none",
             queue |-> <<>>,
             produced |-> <<>>,
             delivered |-> CASE outcome = "notice" -> <<NotLoadedNotice>>
                             [] outcome = "full" -> <<ContextFullError>>
                             [] OTHER -> <<>>,
             failed |-> FALSE ])
  /\ UNCHANGED app_vars

\* model.generate emits the next fragment: streamer.put of its tokens
Produce(c) ==
  /\ calls[c].worker = "running"
  /\ Len(calls[c].produced) < MaxFragments
  /\ LET fragment == Token(Len(calls[c].produced) + 1)
     IN  calls' = [calls EXCEPT ![c].produced = Append(@, fragment),
                                ![c].queue = QueuePut(@, Text(fragment))]
  /\ UNCHANGED app_vars

\* model.generate comes to its end: its last act is streamer.end(), which puts
\* the stop signal
Finish(c) ==
  /\ calls[c].worker = "running"
  /\ calls' = [calls EXCEPT ![c].worker = "exiting",
                            ![c].queue = QueuePut(@, StopSignal)]
  /\ UNCHANGED app_vars

\* model.generate raises: _generate_with_streamer, lines 353-362.  The marker is
\* a string handed to streamer.put, which the backend hands token ids; put
\* either queues it or raises, and a raise is swallowed; then streamer.end()
Fail(c, putOk) ==
  /\ calls[c].worker = "running"
  /\ calls' = [calls EXCEPT
                 ![c].worker = "exiting",
                 ![c].failed = TRUE,
                 ![c].queue = IF putOk
                                THEN QueuePut(QueuePut(@, Text(ErrorMarker)), StopSignal)
                                ELSE QueuePut(@, StopSignal)]
  /\ UNCHANGED app_vars

\* generation_thread comes to its end
Exit(c) ==
  /\ calls[c].worker = "exiting"
  /\ calls' = [calls EXCEPT ![c].worker = "terminated"]
  /\ UNCHANGED app_vars

\* for token in streamer: the next item of the queue, lines 178-180
StreamerNext(c) ==
  /\ calls[c].pc = "waiting"
  /\ calls[c].queue # <<>>
  /\ LET item == QueueGet(calls[c].queue)
     IN  calls' = [calls EXCEPT
                     ![c].queue = Tail(@),
                     ![c].delivered = IF item = StopSignal THEN @
                                      ELSE Append(@, item.content),
                     ![c].pc = IF item = StopSignal THEN "joining" ELSE "yielded"]
  /\ UNCHANGED app_vars

\* the handler asks for the next item of a suspended generator
Resume(c) ==
  /\ calls[c].pc \in {"notice", "full", "yielded"}
  /\ calls' = [calls EXCEPT ![c].pc = IF @ = "yielded" THEN "waiting" ELSE "returned"]
  /\ UNCHANGED app_vars

ThreadJoinedAtOnce(worker) == TRUE

\* generation_thread.join() returns
ThreadJoined(worker) == worker = "terminated"

\* lines 184-189
Join(c) ==
  /\ calls[c].pc = "joining"
  /\ ThreadJoined(calls[c].worker)
  /\ calls' = [calls EXCEPT ![c].pc = "returned"]
  /\ UNCHANGED app_vars

\* the handler stops reading: the generator is closed where it is suspended
\* (GeneratorExit at the yield, which except Exception does not catch); closing
\* a generator that is closed or has returned does nothing
Close(c) ==
  /\ calls[c].pc \in {"notice", "full", "yielded", "closed", "returned"}
  /\ calls' = [calls EXCEPT ![c].pc = IF @ = "returned" THEN @ ELSE "closed"]
  /\ UNCHANGED app_vars

WorkerStep(c) ==
  /\ c \in Calls
  /\ \/ Produce(c)
     \/ Finish(c)
     \/ \E putOk \in BOOLEAN : Fail(c, putOk)
     \/ Exit(c)

ConsumerStep(c) ==
  /\ c \in Calls
  /\ \/ StreamerNext(c)
     \/ Resume(c)
     \/ Join(c)

PipelineStep ==
  \/ \E c \in Calls : Produce(c)
  \/ \E c \in Calls : Finish(c)
  \/ \E c \in Calls, putOk \in BOOLEAN : Fail(c, putOk)
  \/ \E c \in Calls : Exit(c)
  \/ \E c \in Calls : StreamerNext(c)
  \/ \E c \in Calls : Resume(c)
  \/ \E c \in Calls : Join(c)
  \/ \E c \in Calls : Close(c)

\* every handler so far has left its generator
SerialArrival == \A c \in Calls : calls[c].pc \in {"returned", "closed"}

SerialCall(request) ==
  /\ Len(calls) < MaxCalls
  /\ SerialArrival
  /\ generate_response_stream(request)

\* the pipeline when the handlers run one after another
StreamNext ==
  \/ LoadModel
  \/ \E request \in StreamRequests : SerialCall(request)
  \/ PipelineStep

StreamSpec == Init /\ [][StreamNext]_vars

ConcurrentCall(request) ==
  /\ Len(calls) < MaxConcurrent
  /\ generate_response_stream(request)

\* the pipeline when the listeners run their handlers as the events arrive
ConcurrentNext ==
  \/ LoadModel
  \/ \E request \in StreamRequests : ConcurrentCall(request)
  \/ PipelineStep

ConcurrentSpec == Init /\ [][ConcurrentNext]_vars

\* ---- ContextFileManager on its own: the context-file handlers of the UI
\* call it with names and categories the user types.  File content is the
\* sequence of its lines.
ContextNames == { [stem |-> "notes", stamp |-> -1, ext |-> ".txt"] }

RootCategory == "None"

ContextCategories == {RootCategory, "reference"}

ContextContents == { <<"first">>, <<"second">> }

NoPath == FilePath(NoFile, RootCategory)

NoContent == <<>>

\* config.CONTEXT_FILES_DIR / name if it exists, else the first subdirectory
\* that has the name, else nothing
FindFile(files, name) ==
  IF FilePath(name, RootCategory) \in DOMAIN files
    THEN FilePath(name, RootCategory)
    ELSE IF \E p \in DOMAIN files : p[2] = name
           THEN CHOOSE p \in DOMAIN files : p[2] = name
           ELSE NoPath

Uncached(cache, name) == [n \in DOMAIN cache \ {name} |-> cache[n]]

Unlinked(files, path) == [p \in DOMAIN files \ {path} |-> files[p]]

\* load_context_file: the cached content if there is one, else the file's,
\* which is then cached; ok is whether open and read succeed
load_context_file(files, cache, name, use_cache, ok) ==
  IF use_cache /\ name \in DOMAIN cache
    THEN [ content |-> cache[name], cache |-> cache ]
    ELSE IF FindFile(files, name) = NoPath \/ ~ok
           THEN [ content |-> NoContent, cache |-> cache ]
           ELSE [ content |-> files[FindFile(files, name)],
                  cache |-> IF use_cache
                              THEN [n \in DOMAIN cache \cup {name} |->
                                      IF n = name THEN files[FindFile(files, name)]
                                      ELSE cache[n]]
                              ELSE cache ]

\* update_context_file: rewrite or append, then drop the cache entry
update_context_file(files, cache, name, content, append, ok) ==
  IF FindFile(files, name) = NoPath \/ ~ok
    THEN [ files |-> files, cache |-> cache, done |-> FALSE ]
    ELSE [ files |-> [files EXCEPT ![FindFile(files, name)] =
                        IF append THEN @ \o content ELSE content],
           cache |-> Uncached(cache, name), done |-> TRUE ]

\* delete_context_file: unlink, then drop the cache entry
delete_context_file(files, cache, name, ok) ==
  IF FindFile(files, name) = NoPath \/ ~ok
    THEN [ files |-> files, cache |-> cache, done |-> FALSE ]
    ELSE [ files |-> Unlinked(files, FindFile(files, name)),
           cache |-> Uncached(cache, name), done |-> TRUE ]

\* move_file: rename into the new category, replacing a file of that name
\* there, then drop the cache entry
move_file(files, cache, name, new_category, ok) ==
  IF FindFile(files, name) = NoPath \/ ~ok
    THEN [ files |-> files, cache |-> cache, done |-> FALSE ]
    ELSE [ files |-> [p \in (DOMAIN files \ {FindFile(files, name)})
                              \cup {FilePath(name, new_category)} |->
                        IF p = FilePath(name, new_category)
                          THEN files[FindFile(files, name)] ELSE files[p]],
           cache |-> Uncached(cache, name), done |-> TRUE ]

context_frame ==
  << calls, current_session, message_count, context_warning_shown, records,
     model_loaded, last_response_data, history, now, pc, turn, prompt, turns,
     summaries, warnings, model, tokenizer, loader >>

CreateContextFile(content, name, category, ok) ==
  /\ store' = create_context_file(store, content, name, category, ok).store
  /\ last' = [op |-> "create_context_file", name |-> name, done |-> ok]
  /\ UNCHANGED loaded_files
  /\ UNCHANGED context_frame

LoadContextFile(name, use_cache, ok) ==
  LET r == load_context_file(store, loaded_files, name, use_cache, ok) IN
  /\ loaded_files' = r.cache
  /\ last' = [op |-> "load_context_file", name |-> name, content |-> r.content,
              read |-> ok]
  /\ UNCHANGED store
  /\ UNCHANGED context_frame

UpdateContextFile(name, content, append, ok) ==
  LET r == update_context_file(store, loaded_files, name, content, append, ok) IN
  /\ append => \A p \in DOMAIN store : Len(store[p]) < MaxLines
  /\ store' = r.files
  /\ loaded_files' = r.cache
  /\ last' = [op |-> "update_context_file", name |-> name, done |-> r.done]
  /\ UNCHANGED context_frame

DeleteContextFile(name, ok) ==
  LET r == delete_context_file(store, loaded_files, name, ok) IN
  /\ store' = r.files
  /\ loaded_files' = r.cache
  /\ last' = [op |-> "delete_context_file", name |-> name, done |-> r.done]
  /\ UNCHANGED context_frame

MoveFile(name, new_category, ok) ==
  LET r == move_file(store, loaded_files, name, new_category, ok) IN
  /\ store' = r.files
  /\ loaded_files' = r.cache
  /\ last' = [op |-> "move_file", name |-> name, done |-> r.done]
  /\ UNCHANGED context_frame

ContextNext ==
  \/ \E content \in ContextContents, name \in ContextNames,
        category \in ContextCategories, ok \in BOOLEAN :
       CreateContextFile(content, name, category, ok)
  \/ \E name \in ContextNames, use_cache \in BOOLEAN, ok \in BOOLEAN :
       LoadContextFile(name, use_cache, ok)
  \/ \E name \in ContextNames, content \in ContextContents,
        append \in BOOLEAN, ok \in BOOLEAN :
       UpdateContextFile(name, content, append, ok)
  \/ \E name \in ContextNames, ok \in BOOLEAN : DeleteContextFile(name, ok)
  \/ \E name \in ContextNames, new_category \in ContextCategories, ok \in BOOLEAN :
       MoveFile(name, new_category, ok)

ContextSpec == Init /\ [][ContextNext]_vars

\* ---- load_model and unload_model, statement by statement.  Neither holds
\* a lock, and the handlers run in threads of their own.
loader_frame ==
  << loaded_files, calls, current_session, message_count, context_warning_shown, store, records,
     last_response_data, history, now, pc, turn, prompt, turns, summaries,
     warnings, last >>

\* load_model, lines 42-48: self.tokenizer = AutoTokenizer.from_pretrained(...)
LoadTokenizer ==
  /\ loader.load_model = "idle"
  /\ tokenizer' = "set"
  /\ loader' = [loader EXCEPT !.load_model = "tokenizer"]
  /\ UNCHANGED << model, model_loaded >>
  /\ UNCHANGED loader_frame

\* load_model, lines 57-63 and 85-92: self.model = from_pretrained(...), by the
\* first strategy or the fallback; ok is whether one of them succeeds, and
\* load_model raises if none does
LoadWeights(ok) ==
  /\ loader.load_model = "tokenizer"
  /\ model' = IF ok THEN "set" ELSE model
  /\ loader' = [loader EXCEPT !.load_model = IF ok THEN "model" ELSE "idle"]
  /\ UNCHANGED << tokenizer, model_loaded >>
  /\ UNCHANGED loader_frame

\* load_model, lines 65-66 and 94-95: self.model.eval(), which raises on a
\* model that has been unset in between and sends load_model to its next
\* strategy, and self.model_loaded = True
SetLoaded ==
  /\ loader.load_model = "model"
  /\ model_loaded' = IF model = "set" THEN TRUE ELSE model_loaded
  /\ loader' = [loader EXCEPT !.load_model = IF model = "set" THEN "idle" ELSE "tokenizer"]
  /\ UNCHANGED << model, tokenizer >>
  /\ UNCHANGED loader_frame

\* unload_model, lines 333-334: if self.model is not None: del self.model
DelModel ==
  /\ loader.unload_model = "idle"
  /\ model' = IF model # "None" THEN "deleted" ELSE model
  /\ loader' = [loader EXCEPT !.unload_model =
                  IF model # "None" THEN "model_deleted" ELSE "model_cleared"]
  /\ UNCHANGED << tokenizer, model_loaded >>
  /\ UNCHANGED loader_frame

\* unload_model, line 335: self.model = None
ClearModel ==
  /\ loader.unload_model = "model_deleted"
  /\ model' = "None"
  /\ loader' = [loader EXCEPT !.unload_model = "model_cleared"]
  /\ UNCHANGED << tokenizer, model_loaded >>
  /\ UNCHANGED loader_frame

\* unload_model, lines 337-338: if self.tokenizer is not None: del self.tokenizer
DelTokenizer ==
  /\ loader.unload_model = "model_cleared"
  /\ tokenizer' = IF tokenizer # "None" THEN "deleted" ELSE tokenizer
  /\ loader' = [loader EXCEPT !.unload_model =
                  IF tokenizer # "None" THEN "tokenizer_deleted" ELSE "tokenizer_cleared"]
  /\ UNCHANGED << model, model_loaded >>
  /\ UNCHANGED loader_frame

\* unload_model, line 339: self.tokenizer = None
ClearTokenizer ==
  /\ loader.unload_model = "tokenizer_deleted"
  /\ tokenizer' = "None"
  /\ loader' = [loader EXCEPT !.unload_model = "tokenizer_cleared"]
  /\ UNCHANGED << model, model_loaded >>
  /\ UNCHANGED loader_frame

\* unload_model, line 341: self.model_loaded = False
ClearLoaded ==
  /\ loader.unload_model = "tokenizer_cleared"
  /\ model_loaded' = FALSE
  /\ loader' = [loader EXCEPT !.unload_model = "idle"]
  /\ UNCHANGED << model, tokenizer >>
  /\ UNCHANGED loader_frame

\* loads, unloads and generation requests in any interleaving
LoaderNext ==
  \/ LoadTokenizer
  \/ \E ok \in BOOLEAN : LoadWeights(ok)
  \/ SetLoaded
  \/ DelModel
  \/ ClearModel
  \/ DelTokenizer
  \/ ClearTokenizer
  \/ ClearLoaded
  \/ \E request \in StreamRequests : SerialCall(request)
  \/ PipelineStep

LoaderSpec == Init /\ [][LoaderNext]_vars

\* the worker is a thread of the process and the backend stops within
\* max_new_tokens; the handler's loop asks for items until the generator ends
FairStreamSpec ==
  /\ StreamSpec
  /\ \A c \in 1..MaxCalls : WF_vars(WorkerStep(c)) /\ WF_vars(ConsumerStep(c))

\* ------------------------------------------------ the store on its own
\* ChatHistoryManager and ModelManager._format_messages called directly, as
\* the handlers and the other collaborators call them: the session, its
\* records on disk, and what each call returned.

\* list.insert(0, item)
InsertFront(seq, item) == <<item>> \o seq

\* get_messages called without max_tokens
NoBudget == -1

\* the loop of get_messages over reversed(messages)
RECURSIVE IncludeMessages(_, _, _, _)
IncludeMessages(messages, total_chars, max_chars, included) ==
  IF messages = <<>> THEN included
  ELSE LET msg == messages[Len(messages)]
           msg_chars == msg.content.len + RoleAllowance
       IN  IF total_chars + msg_chars < max_chars
             THEN IncludeMessages(SubSeq(messages, 1, Len(messages) - 1),
                                  total_chars + msg_chars, max_chars,
                                  InsertFront(included, msg))
             ELSE included

get_messages(session, max_tokens) ==
  IF session = None THEN <<>>
  ELSE IF max_tokens = NoBudget THEN session.messages
  ELSE IncludeMessages(session.messages, 0, max_tokens * CharsPerToken, <<>>)

\* f"System: {system_prompt}\n\n"
HeaderPart(personality_params) ==
  [kind |-> "System", content |-> personality_params.system_prompt,
   len |-> HeaderLen(personality_params)]

\* f"{msg['role'].capitalize()}: {msg['content']}\n\n"
LinePart(msg) ==
  [kind |-> IF msg.role = "user" THEN "User" ELSE "Assistant",
   content |-> msg.content, len |-> MessageTextLen(msg)]

\* "Assistant: "
CuePart == [kind |-> "Assistant", content |-> Empty, len |-> CueLen]

\* the loop of _format_messages over reversed(messages)
RECURSIVE IncludeLines(_, _, _, _)
IncludeLines(messages, current_length, available_chars, included_messages) ==
  IF messages = <<>> THEN included_messages
  ELSE LET msg_text == LinePart(messages[Len(messages)])
       IN  IF current_length + msg_text.len < available_chars
             THEN IncludeLines(SubSeq(messages, 1, Len(messages) - 1),
                               current_length + msg_text.len, available_chars,
                               InsertFront(included_messages, msg_text))
             ELSE included_messages

\* the string _format_messages returns, part by part
FormattedPrompt(messages, personality_params, context_window) ==
  LET available_tokens == context_window - personality_params.max_tokens - FormatReserve
      available_chars == available_tokens * CharsPerToken
  IN  <<HeaderPart(personality_params)>>
        \o IncludeLines(messages, HeaderLen(personality_params), available_chars, <<>>)
        \o <<CuePart>>

\* what the callers pass
StoreBudgets == {NoBudget, 15, 30}

StoreParams == {DefaultParams, Params(161, 3840, 4096), Params(40, 4096, 4096)}

MemoryInputs == {NameMsg, OtherNameMsg, NoNameMsg, TwoNotesMsg, Filler}

store_frame ==
  << loaded_files, model, tokenizer, loader, calls, context_warning_shown, store, model_loaded, last_response_data,
     history, pc, turn, prompt, summaries, warnings >>

\* add_message(role, content); saveOk is whether the save it may make succeeds
AddMessage(role, content, saveOk) ==
  /\ LET a == add_message(current_session, message_count, role, content, now)
     IN  /\ current_session' = a.session
         /\ message_count' = a.message_count
         /\ records' = IF a.autosave THEN save_session(a.session, records, saveOk)
                       ELSE records
         /\ last' = [ op |-> "add_message", role |-> role, content |-> content,
                      autosave |-> a.autosave, saved |-> a.autosave /\ saveOk,
                      returned |-> "None" ]
  /\ UNCHANGED << now, turns >>
  /\ UNCHANGED store_frame

\* save_session() called by a collaborator
SaveSession(ok) ==
  /\ turns < MaxTurns
  /\ turns' = turns + 1
  /\ records' = save_session(current_session, records, ok)
  /\ last' = [op |-> "save", returned |-> current_session # None /\ ok]
  /\ UNCHANGED << current_session, message_count, now >>
  /\ UNCHANGED store_frame

\* get_messages(max_tokens)
GetMessages(max_tokens) ==
  /\ last' = [ op |-> "get_messages", max_tokens |-> max_tokens,
               returned |-> get_messages(current_session, max_tokens) ]
  /\ UNCHANGED << current_session, message_count, records, now, turns >>
  /\ UNCHANGED store_frame

\* _format_messages(messages, personality_params, context_window) on the log,
\* and what generate_response_stream makes of its prompt
FormatMessages(personality_params) ==
  /\ last' = [ op |-> "format", params |-> personality_params,
               returned |-> FormattedPrompt(Log, personality_params,
                                            personality_params.context_window),
               outcome |-> StartOutcome(TRUE, Log, personality_params) ]
  /\ UNCHANGED << current_session, message_count, records, now, turns >>
  /\ UNCHANGED store_frame

StoreAdd(role, content, saveOk) ==
  /\ message_count < MaxCount
  /\ AddMessage(role, content, saveOk)

StoreLoad(session_id, ok) ==
  /\ session_id \in DOMAIN records \cup {now}
  /\ LoadSession(session_id, ok)

\* appends, saves and loads in any order, each save and load failing or not
StoreNext ==
  \/ Tick
  \/ NewSessionClick
  \/ \E id \in 0..MaxTime, ok \in BOOLEAN : StoreLoad(id, ok)
  \/ \E ok \in BOOLEAN : SaveSession(ok)
  \/ \E ok \in BOOLEAN : StoreAdd("user", NameMsg, ok)

StoreSpec == Init /\ [][StoreNext]_vars

ReadAdd(role, content) ==
  /\ message_count < MaxCount
  /\ AddMessage(role, content, TRUE)

\* a log of any shape, read under every budget
ReadNext ==
  \/ NewSessionClick
  \/ \E role \in {"user", "assistant"} :
       ReadAdd(role, IF role = "user" THEN Filler ELSE ShortReply)
  \/ \E max_tokens \in StoreBudgets : GetMessages(max_tokens)
  \/ \E p \in StoreParams : FormatMessages(p)

ReadSpec == Init /\ [][ReadNext]_vars

MemoryAdd(role, content) ==
  /\ message_count < MaxNotes
  /\ AddMessage(role, content, TRUE)

\* the messages a user can write, two or three at a time
MemoryNext ==
  \/ Tick
  \/ NewSessionClick
  \/ \E content \in MemoryInputs : MemoryAdd("user", content)
  \/ \E content \in {NameMsg, ShortReply} : MemoryAdd("assistant", content)

MemorySpec == Init /\ [][MemoryNext]_vars

\* a long conversation: the user's and the assistant's messages in turn, the
\* user's name given in the first messages if at all, and the context check
\* at any point
LongParams == Params(13800, 1024, 4096)

LongAdd(role, content) ==
  /\ message_count < MaxLog
  /\ IF Log = <<>> \/ Log[Len(Log)].role = "assistant"
       THEN /\ role = "user"
            /\ content \in IF Len(Log) < NamedWithin THEN {NameMsg, OtherNameMsg, Filler}
                           ELSE {Filler}
       ELSE /\ role = "assistant"
            /\ content = ShortReply
  /\ AddMessage(role, content, TRUE)

LongNext ==
  \/ \E role \in {"user", "assistant"},
        content \in {NameMsg, OtherNameMsg, Filler, ShortReply} : LongAdd(role, content)
  \/ \E ok \in BOOLEAN : Check(LongParams, ok)

LongSpec == Init /\ [][LongNext]_vars

\* ---- export_session, format "txt"
NoSessionId == -1

NoExport == [id |-> NoSessionId]

Upper(role) == IF role = "user" THEN "USER" ELSE "ASSISTANT"

\* the header lines and, for every message, "[timestamp] ROLE:" and the content
_export_as_text(session_data) ==
  [ id |-> session_data.id,
    created |-> session_data.created_at,
    messages |-> Len(session_data.messages),
    lines |-> [i \in 1..Len(session_data.messages) |->
                 [ timestamp |-> session_data.messages[i].timestamp,
                   role |-> Upper(session_data.messages[i].role),
                   content |-> session_data.messages[i].content ]] ]

\* with a session id the data comes from load_session, which makes the loaded
\* session the current one; without, it is the current session
export_session(session, count, files, session_id, ok) ==
  LET l == IF session_id # NoSessionId
             THEN load_session(session, count, files, session_id, ok)
             ELSE [found |-> session # None, session |-> session, message_count |-> count]
  IN  [ session |-> l.session,
        message_count |-> l.message_count,
        text |-> IF l.found THEN _export_as_text(l.session) ELSE NoExport ]

ExportSession(session_id, ok) ==
  /\ pc = "idle"
  /\ LET e == export_session(current_session, message_count, records, session_id, ok)
     IN  /\ current_session' = e.session
         /\ message_count' = e.message_count
         /\ last' = [op |-> "export", session_id |-> session_id, text |-> e.text]
  /\ UNCHANGED store_frame
  /\ UNCHANGED << records, now, turns >>

\* exports and usage estimates among appends, saves, loads and context checks
ExportNext ==
  \/ StoreNext
  \/ \E id \in NoSessionId..MaxTime, ok \in BOOLEAN : ExportSession(id, ok)
  \/ GetContextUsage
  \/ \E ok \in BOOLEAN : Check(LongParams, ok)

ExportSpec == Init /\ [][ExportNext]_vars

\* ---------------------------------------------------------------- claims
\* a step in which _auto_create_context_file ran
SummarizeStep == Len(summaries') = Len(summaries) + 1

LatestSummary == summaries[Len(summaries)]

\* a step that is a call of check_context_limit with these parameters
CheckStep(p, ok) == Check(p, ok) \/ \E m \in UserInputs : ChatCheck(m, p, ok)

\* usedTokens / totalBudget >= pct / 100 in the state the check starts from
RatioAtLeast(p, pct) ==
  LET u == estimate_context_usage(current_session, FALSE, p)
  IN  u.total > 0 /\ u.used * 100 >= pct * u.total

InWarnBand(p) == RatioAtLeast(p, 80) /\ ~RatioAtLeast(p, 90)

Quiet ==
  /\ current_session' = current_session
  /\ context_warning_shown' = context_warning_shown
  /\ store' = store
  /\ summaries' = summaries

\* C1: a SUMMARIZE whose digest could not be written (create_context_file
\* returned None) leaves the message log as it was before the check.
C1_NoTruncationOnWriteFailure ==
  [][SummarizeStep /\ ~last'.written => Log' = Log]_vars

\* C2: the assembled prompt's estimated token count (length / 4) never exceeds
\* the context window minus the reserved response budget (max_tokens + margin).
C2_PromptWithinBudget ==
  prompt # NoPrompt =>
    prompt.len \div 4 <= prompt.context_window - (prompt.max_tokens + 200)

\* C3: a check that follows a SUMMARIZE at once, with the same parameters and no
\* message appended in between, returns NORMAL: no warning, no second SUMMARIZE,
\* no further context file.
C3_SecondCheckNormal ==
  [][\A p \in ParamSet, ok \in BOOLEAN :
       (last.op = "check" /\ last.kind = "SUMMARIZE" /\ last.params = p
          /\ CheckStep(p, ok))
       => (last'.kind = "NORMAL" /\ summaries' = summaries /\ store' = store)]_vars

\* C4: between two consecutive SUMMARIZE transitions at most one warning is
\* emitted: a check at a ratio in [0.80, 0.90) made after a warning, and before
\* the next SUMMARIZE, returns no warning.
C4_WarnOnce ==
  /\ [](warnings <= 1)
  /\ [][\A p \in ParamSet, ok \in BOOLEAN :
          (warnings >= 1 /\ InWarnBand(p) /\ CheckStep(p, ok))
          => (last'.kind = "NORMAL" /\ Quiet)]_vars

C4_Witness ==
  /\ last.op = "check"
  /\ last.kind = "NORMAL"
  /\ warnings = 1
  /\ InWarnBand(last.params)

\* C5: after a SUMMARIZE the log holds the last min(20, n) messages of the log
\* it had before (n its length), in their original order, so at most 20.
C5_KeepsLastTwenty ==
  [][SummarizeStep =>
       /\ Len(Log') = Min(20, Len(Log))
       /\ \A i \in 1..Len(Log') : Log'[i] = Log[Len(Log) - Len(Log') + i]]_vars

C5_Witness ==
  /\ last.op = "check"
  /\ last.kind = "SUMMARIZE"
  /\ Len(LatestSummary.source.messages) > 20
  /\ Len(Log) = 20
  /\ Log[20] = LatestSummary.source.messages[Len(LatestSummary.source.messages)]

\* a step inside one session's lifetime: not one that creates or loads a session
WithinSession == current_session # None /\ last'.op \notin {"create", "load"}

C7_Expected(p) ==
  /\ ~RatioAtLeast(p, 80) => last'.kind = "NORMAL" /\ Quiet
  /\ InWarnBand(p) /\ ~context_warning_shown =>
       /\ last'.kind = "WARN"
       /\ context_warning_shown'
       /\ last'.file = NoFile
       /\ current_session' = current_session
       /\ store' = store
       /\ summaries' = summaries
  /\ InWarnBand(p) /\ context_warning_shown => last'.kind = "NORMAL" /\ Quiet
  /\ RatioAtLeast(p, 90) =>
       /\ last'.kind = "SUMMARIZE"
       /\ SummarizeStep
       /\ last'.file # NoFile
       /\ last'.file = summaries'[Len(summaries')].file

\* C7: the outcome of check is decided by the usage ratio and the warned flag:
\* below 0.80 NORMAL and no change; in [0.80, 0.90) a warning that sets WARNED
\* if the flag is clear and NORMAL if it is set; at 0.90 or above SUMMARIZE,
\* whatever the flag, returning the artifact's name; never a warning and a
\* SUMMARIZE in one check.
C7_CheckOutcome ==
  [][\A p \in ParamSet, ok \in BOOLEAN : CheckStep(p, ok) => C7_Expected(p)]_vars

C7_Witness ==
  /\ last.op = "check"
  /\ last.kind = "SUMMARIZE"
  /\ LatestSummary.shown
  /\ last.file = LatestSummary.file

\* C8: right after every check that performed SUMMARIZE the warned flag is
\* clear, whatever it was before and whether or not the log was shortened.
C8_SummarizeClearsWarned ==
  [][SummarizeStep => ~context_warning_shown']_vars

C8_Witness ==
  /\ last.op = "check"
  /\ last.kind = "SUMMARIZE"
  /\ LatestSummary.shown
  /\ Len(LatestSummary.source.messages) <= 20
  /\ ~context_warning_shown

\* the digest line of an ImportantFacts key
FactLabel(key) == IF key = "user_name" THEN "User Name" ELSE key

\* C9: the digest of a SUMMARIZE has an entry for every ImportantFacts key the
\* session held when it ran.
C9_DigestHasEveryFact ==
  \A i \in 1..Len(summaries) :
    \A k \in DOMAIN summaries[i].source.important_facts :
      \E e \in summaries[i].content.key_information :
        /\ e.label = FactLabel(k)
        /\ e.value = summaries[i].source.important_facts[k]

C9_Witness ==
  \E i \in 1..Len(summaries) :
    /\ "user_name" \in DOMAIN summaries[i].source.important_facts
    /\ [label |-> "User Name", value |-> "Avery"] \in summaries[i].content.key_information

SameContent(a, b) ==
  /\ a.important_facts = b.important_facts
  /\ a.memory_items = b.memory_items
  /\ a.messages = b.messages

\* C10: two SUMMARIZE runs over identical session content (ImportantFacts,
\* MemoryItems, message log) produce identical digests, whenever they run.
C10_DigestPure ==
  \A i, j \in 1..Len(summaries) :
    SameContent(summaries[i].source, summaries[j].source)
      => summaries[i].content = summaries[j].content

\* C10 as amended: two SUMMARIZE runs over identical content of the same session
\* (id, ImportantFacts, MemoryItems, message log) produce digests that agree in
\* every line but "Created:", which carries the second at which the run was made.
C10_DigestPureButCreated ==
  \A i, j \in 1..Len(summaries) :
    (SameContent(summaries[i].source, summaries[j].source)
       /\ summaries[i].source.id = summaries[j].source.id)
      => [summaries[i].content EXCEPT !.created = 0]
           = [summaries[j].content EXCEPT !.created = 0]

C10_Witness ==
  \E i, j \in 1..Len(summaries) :
    /\ i # j
    /\ summaries[i].source = summaries[j].source
    /\ summaries[i].at # summaries[j].at
    /\ summaries[i].content.created # summaries[j].content.created

\* ------------------------------------------------- claims on the turns
\* the step in which the handler's loop over the stream runs
GenerateStep == pc \in {"chat_stream", "regen_stream"} /\ pc' \in {"chat_done", "regen_done"}

\* the step in which a handler stores the response after the stream has ended
FinishStep == pc \in {"chat_done", "regen_done"} /\ pc' = "idle"

SameText(a, b) == a.text = b.text /\ a.len = b.len

\* C13: when a generation has run to its end, the assistant message the handler
\* appends has for content what the stream delivered, nothing before it and
\* nothing after it
C13_AssistantIsStream ==
  [][ FinishStep /\ last.op = "generate" /\ last.ran
        => /\ Log' # <<>>
           /\ Log'[Len(Log')].role = "assistant"
           /\ SameText(Log'[Len(Log')].content, last.yielded) ]_vars

\* C14: a chat turn has appended its user message when the generation starts;
\* the generation leaves the log alone; the handler then appends one assistant
\* message and nothing else, and no message is appended between the turns of a
\* handler except by these steps
C14_OneAssistantPerTurn ==
  [][ /\ GenerateStep
        => /\ Log' = Log
           /\ pc = "chat_stream"
                => /\ Log # <<>>
                   /\ Log[Len(Log)].role = "user"
                   /\ Log[Len(Log)].content = turn.message
      /\ FinishStep
        => /\ Len(Log') = Len(Log) + 1
           /\ SubSeq(Log', 1, Len(Log)) = Log
           /\ Log'[Len(Log')].role = "assistant"
      /\ pc \in {"chat_stream", "regen_stream", "chat_done", "regen_done"} /\ ~FinishStep
        => Log' = Log ]_vars

C14_Witness ==
  /\ last.op = "add_assistant"
  /\ Len(Log) >= 2
  /\ Log[Len(Log)].role = "assistant"
  /\ Log[Len(Log) - 1].role = "user"
  /\ Log[Len(Log) - 1].content \in UserInputs

NoticeParts == {"not loaded notice", "context full error", "generation error"}

\* C20: no assistant message of the log holds the not-ready notice, the
\* context-full error or the error marker of a failed generation
C20_NoNoticeInLog ==
  \A i \in 1..Len(Log) :
    Log[i].role = "assistant"
      => \A j \in 1..Len(Log[i].content.text) : Log[i].content.text[j] \notin NoticeParts

\* ------------------------------------------------ claims on the pipeline
\* the items of seq that are not the error marker
NonError(seq) == SelectSeq(seq, LAMBDA item : item # ErrorMarker)

\* the contents of the text items of a queue, in order
QueueTexts(queue) ==
  LET texts == SelectSeq(queue, LAMBDA item : item.kind = "text")
  IN  [i \in 1..Len(texts) |-> texts[i].content]

RECURSIVE ConcatAll(_)
ConcatAll(seq) == IF seq = <<>> THEN Empty ELSE Concat(Head(seq), ConcatAll(Tail(seq)))

IsPrefix(a, b) == Len(a) <= Len(b) /\ a = SubSeq(b, 1, Len(a))

\* C11: when the backend fails in mid-stream and the stream has come to its end,
\* the consumer has been given every fragment produced before the failure and
\* then the error marker as the last item, and nothing else
C11_ErrorMarkerFinal ==
  \A c \in Calls :
    calls[c].failed /\ calls[c].pc = "returned"
      => calls[c].delivered = calls[c].produced \o <<ErrorMarker>>

\* C12: in every stream that runs the backend the fragments delivered and those
\* still queued are, in order and once each, the fragments produced; when the
\* stream has come to its end the fragments delivered that are not the error
\* marker are the produced ones, and their concatenation is the backend's output
C12_DeliveredIsProduced ==
  \A c \in Calls :
    calls[c].outcome = "run"
      => /\ NonError(calls[c].delivered \o QueueTexts(calls[c].queue))
              = calls[c].produced
         /\ calls[c].pc = "returned"
              => /\ NonError(calls[c].delivered) = calls[c].produced
                 /\ ConcatAll(NonError(calls[c].delivered))
                      = ConcatAll(calls[c].produced)

C12_Witness ==
  \E c \in Calls :
    /\ calls[c].pc = "returned"
    /\ ~calls[c].failed
    /\ Len(calls[c].delivered) >= 2
    /\ calls[c].delivered = calls[c].produced

\* a request whose generation has started and whose generator has not been left
Running(call) == call.pc \in {"waiting", "yielded", "joining"}

\* C15: at most one generation is in flight at a time (the interface has one
\* session, chat_manager.current_session)
C15_OneGenerationInFlight ==
  Cardinality({c \in Calls : Running(calls[c])}) <= 1

\* C16: once the consumer has stopped reading, the worker emits no further
\* fragment
C16_WorkerStopsOnCancel ==
  [][ \A c \in Calls :
        calls[c].pc = "closed" => calls'[c].produced = calls[c].produced ]_vars

\* everything a stream hands over when it is read to its end
FullOutput(call) ==
  IF call.failed THEN call.produced \o <<ErrorMarker>> ELSE call.produced

\* C17: once its worker has ended, a cancelled stream has delivered the first k
\* fragments of the backend's output for some k smaller than the full length
C17_StrictPrefix ==
  \A c \in Calls :
    /\ calls[c].pc = "closed"
    /\ calls[c].outcome = "run"
    /\ calls[c].worker = "terminated"
    => /\ IsPrefix(calls[c].delivered, FullOutput(calls[c]))
       /\ Len(calls[c].delivered) < Len(FullOutput(calls[c]))

\* C17, amended: a cancelled stream has delivered the first k fragments of the
\* backend's output for some k of at least one and at most the full length
C17_Prefix ==
  \A c \in Calls :
    calls[c].pc = "closed" /\ calls[c].outcome = "run"
      => /\ IsPrefix(calls[c].delivered, FullOutput(calls[c]))
         /\ Len(calls[c].delivered) >= 1

C17_Witness ==
  \E c \in Calls :
    /\ calls[c].pc = "closed"
    /\ calls[c].outcome = "run"
    /\ calls[c].worker = "terminated"
    /\ Len(calls[c].delivered) >= 1
    /\ Len(calls[c].delivered) < Len(calls[c].produced)

C19_NotReady ==
  /\ [][ Len(calls') > Len(calls) /\ ~model_loaded
           => /\ calls'[Len(calls')].outcome = "notice"
              /\ model_loaded' = model_loaded ]_vars
  /\ [](\A c \in Calls :
          calls[c].outcome = "notice"
            => /\ calls[c].worker = "none"
               /\ calls[c].produced = <<>>
               /\ calls[c].queue = <<>>
               /\ calls[c].delivered = <<NotLoadedNotice>>
               /\ calls[c].pc \in {"notice", "returned", "closed"})

C19_Witness ==
  \E c \in Calls :
    /\ calls[c].outcome = "notice"
    /\ calls[c].pc = "returned"
    /\ ~model_loaded

\* ------------------------------------------------- claims on the store
FormatStep == last' # last /\ last'.op = "format"

\* the last n elements of a sequence
Suffix(seq, n) == SubSeq(seq, Len(seq) - n + 1, Len(seq))

\* a prompt: the header first, the generation cue last
IsPrompt(parts) ==
  /\ Len(parts) >= 2
  /\ parts[1].kind = "System"
  /\ parts[Len(parts)] = CuePart

WindowTooSmall(personality_params) ==
  personality_params.max_tokens + FormatReserve > personality_params.context_window

\* C21: when max_tokens plus the safety margin exceeds the context window,
\* the assembler does not return a prompt
C21_WindowTooSmallSignalled ==
  (last.op = "format" /\ WindowTooSmall(last.params)) => ~IsPrompt(last.returned)

\* the estimate of a run of messages, in characters
RECURSIVE EstimateChars(_)
EstimateChars(messages) ==
  IF messages = <<>> THEN 0
  ELSE messages[1].content.len + RoleAllowance + EstimateChars(Tail(messages))

\* the longest suffix of the log whose estimate stays within the budget
LongestWithin(messages, budget_chars) ==
  LET fits == {n \in 0..Len(messages) :
                 n = 0 \/ EstimateChars(Suffix(messages, n)) <= budget_chars}
  IN  Suffix(messages, CHOOSE n \in fits : \A m \in fits : m <= n)

\* C22: get_messages returns the whole log when no budget is given, and with
\* a budget the longest run of whole messages, from the most recent
\* backwards and in the order of the log, whose estimate stays within it
C22_MessagesWithinBudget ==
  last.op = "get_messages" =>
    IF last.max_tokens = NoBudget THEN last.returned = Log
    ELSE last.returned = LongestWithin(Log, last.max_tokens * CharsPerToken)

\* the length of the lines of a run of messages
RECURSIVE LinesLen(_)
LinesLen(messages) ==
  IF messages = <<>> THEN 0
  ELSE MessageTextLen(messages[1]) + LinesLen(Tail(messages))

\* the longest suffix of the log whose lines fit the message budget
LongestFitting(messages, budget_chars) ==
  LET fits == {n \in 0..Len(messages) :
                 n = 0 \/ LinesLen(Suffix(messages, n)) <= budget_chars}
  IN  Suffix(messages, CHOOSE n \in fits : \A m \in fits : m <= n)

\* what is left of the window for the messages, in characters
MessageBudget(personality_params) ==
  (personality_params.context_window - personality_params.max_tokens - FormatReserve)
     * CharsPerToken - HeaderLen(personality_params)

\* C23: where the window is not too small, the prompt is the system prompt's
\* header, the "Role: content" lines of the longest suffix of the log that
\* fits the message budget, in the order of the log, and the generation cue
C23_PromptIsHeaderSuffixCue ==
  (last.op = "format" /\ ~WindowTooSmall(last.params)) =>
    LET fitting == LongestFitting(Log, MessageBudget(last.params))
    IN  last.returned = <<HeaderPart(last.params)>>
                          \o [i \in 1..Len(fitting) |-> LinePart(fitting[i])]
                          \o <<CuePart>>

\* a step of add_message
AppendStep == last'.op = "add_message" /\ current_session' # current_session

\* what is on disk of the session in memory
OnDisk ==
  IF current_session # None /\ current_session.id \in DOMAIN records
    THEN json_load(records[current_session.id]).messages
    ELSE <<>>

\* the messages of the log a crash would lose: those after the ones on disk
Lost == IF IsPrefix(OnDisk, Log) THEN Len(Log) - Len(OnDisk) ELSE Len(Log)

FailedAutoSave == last.op = "add_message" /\ last.autosave /\ ~last.saved

SavedStep ==
  \/ last'.op = "save" /\ last'.returned /\ turns' # turns
  \/ AppendStep /\ last'.saved

\* the messages a crash would lose are no more than those appended since
\* the running count was last a multiple of the cadence
WithinCadence == Lost <= message_count % AUTO_SAVE_INTERVAL

LoadedStep == last'.op = "load" /\ last'.found /\ turns' # turns

\* C25: a load of the id just saved gives the saved session back, equal in
\* every field, and the count with it; the save replaces the record of this
\* id and no other; and every load that succeeds leaves in memory a session
\* whose dump is the record it read
C25_SaveLoadRoundTrip ==
  [][ /\ SavedStep =>
           LET id == current_session'.id
               l == load_session(None, 0, records', id, TRUE)
           IN  /\ l.found
               /\ l.session = current_session'
               /\ l.message_count = current_session'.message_count
               /\ DOMAIN records' = DOMAIN records \cup {id}
               /\ \A i \in DOMAIN records : i # id => records'[i] = records[i]
      /\ LoadedStep =>
           /\ current_session'.id \in DOMAIN records
           /\ json_dump(current_session') = records[current_session'.id]
           /\ message_count' = current_session'.message_count ]_vars

\* a session of this run with a message, a memory item and a fact has been
\* saved and loaded again
C25_Witness ==
  /\ last.op = "load" /\ last.found
  /\ current_session.id # SeedSession.id
  /\ Len(current_session.messages) >= 1
  /\ Len(current_session.memory_items) >= 1
  /\ "user_name" \in DOMAIN current_session.important_facts

\* C26: a save or a load that fails leaves the session in memory as it was,
\* an append whose auto-save fails keeps the appended session, and the
\* caller of that append is told of the failure
C26_FailureSurfaced ==
  [][ /\ (last'.op = "save" /\ turns' # turns /\ ~last'.returned)
           => UNCHANGED << current_session, message_count >>
      /\ (last'.op = "load" /\ turns' # turns /\ ~last'.found)
           => UNCHANGED << current_session, message_count >>
      /\ (AppendStep /\ FailedAutoSave')
           => /\ current_session' =
                   add_message(current_session, message_count,
                               last'.role, last'.content, now).session
              /\ last'.returned # "None" ]_vars

\* ------------------------------------------------ claims on the memory
\* the session add_message appends to
Appended == IF current_session = None THEN NewSession(now) ELSE current_session

\* the trigger phrases that occur in a content
Occurring(content) ==
  {i \in 1..Len(memory_keywords) : memory_keywords[i] \in content.kws}

\* C27: an append of a user message in which a trigger phrase occurs adds
\* one memory item, of this message and with the phrase that comes first in
\* the list among those occurring; every other append adds none
C27_OneItemFirstPhrase ==
  [][ AppendStep =>
        LET content == last'.content
            before == Appended.memory_items
            after == current_session'.memory_items
        IN  IF last'.role = "user" /\ Occurring(content) # {}
              THEN /\ Len(after) = Len(before) + 1
                   /\ SubSeq(after, 1, Len(before)) = before
                   /\ after[Len(after)].content = content
                   /\ \E i \in Occurring(content) :
                        /\ \A j \in Occurring(content) : i <= j
                        /\ after[Len(after)].keyword = memory_keywords[i]
              ELSE after = before ]_vars

\* a message with two trigger phrases has been noted under "i like", an
\* assistant's message with a trigger phrase not at all
C27_Witness ==
  /\ current_session # None
  /\ Len(Log) = 2
  /\ Log[1].role = "assistant" /\ Log[1].content = NameMsg
  /\ Log[2].role = "user" /\ Log[2].content = TwoNotesMsg
  /\ Len(current_session.memory_items) = 1
  /\ current_session.memory_items[1].keyword = "i like"

\* an append of a user message in which "my name is" occurs
NameStep ==
  /\ AppendStep
  /\ last'.role = "user"
  /\ "my name is" \in last'.content.kws

\* C28: a user message with "my name is" and a token after it is noted
\* under "my name is", and user_name becomes the token without its
\* surrounding punctuation and capitalised, whatever it was before;
\* "My name is Avery." gives "Avery"
C28_NameIsRemembered ==
  [][ (NameStep /\ last'.content.after # <<>>) =>
        LET items == current_session'.memory_items
            facts == current_session'.important_facts
        IN  /\ Len(items) = Len(Appended.memory_items) + 1
            /\ items[Len(items)].keyword = "my name is"
            /\ DOMAIN facts = {"user_name"}
            /\ facts["user_name"] = Title(StripPunct(last'.content.after[1]))
            /\ last'.content.text = <<"My name is Avery.">> => facts["user_name"] = "Avery"
            /\ last'.content.text = <<"my name is blake">> => facts["user_name"] = "Blake" ]_vars

\* the user gave one name and then another: the second is the one kept
C28_Witness ==
  /\ current_session # None
  /\ Len(Log) = 2
  /\ Log[1].content = NameMsg /\ Log[2].content = OtherNameMsg
  /\ Log[1].role = "user" /\ Log[2].role = "user"
  /\ current_session.important_facts = [k \in {"user_name"} |-> "Blake"]

\* C29: a user message with "my name is" and nothing after it is appended
\* to the log and noted under "my name is", and the facts stay as they were
C29_NoTokenNoFact ==
  [][ (NameStep /\ last'.content.after = <<>>) =>
        LET items == current_session'.memory_items
        IN  /\ Log' = Append(Appended.messages, Message("user", last'.content, now))
            /\ message_count' = message_count + 1
            /\ items = Append(Appended.memory_items,
                              [ content |-> last'.content, keyword |-> "my name is",
                                timestamp |-> now ])
            /\ current_session'.important_facts = Appended.important_facts ]_vars

\* the name was known when the message without a name came
C29_Witness ==
  /\ last.op = "add_message" /\ last.role = "user" /\ last.content = NoNameMsg
  /\ Len(Log) = 2
  /\ Log[2].content = NoNameMsg
  /\ Len(current_session.memory_items) = 2
  /\ current_session.important_facts = [k \in {"user_name"} |-> "Avery"]

\* ----------------------------------------------- claims on the session
\* C30: after create_session the log, the memory items and the important
\* facts are empty, both counts are 0 and the warned flag is clear
C30_CreateResetsAll ==
  last.op = "create" =>
    /\ current_session.messages = <<>>
    /\ current_session.memory_items = <<>>
    /\ DOMAIN current_session.important_facts = {}
    /\ current_session.message_count = 0
    /\ message_count = 0
    /\ ~context_warning_shown

\* ------------------------------------------ claims on what is remembered
Items == IF current_session = None THEN <<>> ELSE current_session.memory_items

Facts == IF current_session = None THEN <<>> ELSE current_session.important_facts

\* a step of create_session called by the handler of the New Session button
CreateStep == last'.op = "create" /\ turns' # turns

\* C31: a step in which _auto_create_context_file runs leaves the memory
\* items and the important facts as they were, and every step but a
\* create_session or a load_session that succeeds keeps the memory items
\* there were, in their order, as the first of those there are
C31_MemorySurvivesEviction ==
  [][ /\ SummarizeStep => (Items' = Items /\ Facts' = Facts)
      /\ ~(CreateStep \/ LoadedStep) => IsPrefix(Items, Items') ]_vars

\* a digest has been made of a session that holds a memory item and a fact
C31_Witness ==
  /\ last.op = "check" /\ last.kind = "SUMMARIZE"
  /\ Len(Items) >= 1
  /\ "user_name" \in DOMAIN Facts

\* a step that adds to the memory items of the session in memory
NotedStep == Len(Items') > Len(Items) /\ ~(CreateStep \/ LoadedStep)

\* a step that changes the important facts of the session in memory
FactStep == Facts' # Facts /\ ~(CreateStep \/ LoadedStep)

\* the message a step has appended to the log
Newest == Log'[Len(Log')]

\* C32: the memory items grow by one item at a time, in the step that appends
\* a user message to the log, and the item holds that message's content; the
\* important facts change only in such a step, to the name that message
\* gives; and the steps that cut the log leave both as they are
C32_MemoryFromUserMessages ==
  [][ /\ NotedStep =>
           /\ Len(Log') >= 1
           /\ Log' = Append(Appended.messages, Newest)
           /\ Newest.role = "user"
           /\ Items' = Append(Items, [ content |-> Newest.content,
                                       keyword |-> Items'[Len(Items')].keyword,
                                       timestamp |-> Newest.timestamp ])
           /\ Items'[Len(Items')].keyword \in Newest.content.kws
      /\ FactStep =>
           /\ NotedStep
           /\ "my name is" \in Newest.content.kws
           /\ Newest.content.after # <<>>
           /\ Facts' = [k \in {"user_name"} |-> Title(StripPunct(Newest.content.after[1]))]
      /\ (Len(Log') < Len(Log) /\ ~(CreateStep \/ LoadedStep))
           => (Items' = Items /\ Facts' = Facts) ]_vars

\* the message that gave the name has been cut from the log; the item and
\* the fact are still there
C32_Witness ==
  /\ Len(summaries) >= 1
  /\ Len(Items) >= 1
  /\ "user_name" \in DOMAIN Facts
  /\ Len(Log) = KeepLast
  /\ \A i \in DOMAIN Log : Log[i].content # Items[1].content

\* ------------------------------------------------- claims on the order
\* the step of a chat turn in which check_context_limit runs
TurnCheckStep == pc = "idle" /\ pc' = "chat_checked"

\* C33: when the context check of a turn runs, the turn's user message is
\* the latest message of the log, so that the usage the check evaluates
\* includes it
C33_CheckAfterUserMessage ==
  [][ TurnCheckStep =>
        /\ Log # <<>>
        /\ Log[Len(Log)].role = "user"
        /\ Log[Len(Log)].content = turn'.message ]_vars

\* ------------------------------------------------- claims on the names
\* C34: the digest of a SUMMARIZE is written under a name that no file of
\* the context-file store has yet
C34_FreshArtifactName ==
  [][ SummarizeStep =>
        FilePath(last'.file, "auto_generated") \notin DOMAIN store ]_vars

\* ------------------------------------- claims on the generation length
RECURSIVE PartsLen(_)
PartsLen(parts) ==
  IF parts = <<>> THEN 0 ELSE parts[1].len + PartsLen(Tail(parts))

\* the tokens of the prompt of a request, as the tokenizer hands them over
RequestPromptLength(request) ==
  Min(PartsLen(FormattedPrompt(request.messages, request.params,
                               request.params.context_window)) \div CharsPerToken,
      request.params.context_window)

\* min(max_tokens, context_window - prompt_length - 50)
RequestNewTokens(request) ==
  Min(request.params.max_tokens,
      request.params.context_window - RequestPromptLength(request) - GenerationReserve)

\* C35: a call that passed the readiness check has a worker exactly when
\* its generation length is at least 10, and then prompt, generation and
\* the margin of 50 fit the context window; a call with a shorter generation
\* length hands over the context-full error alone and has no worker
C35_WorkerOnlyWithRoom ==
  \A c \in Calls :
    calls[c].outcome # "notice" =>
      LET request == calls[c].request
          new_tokens == RequestNewTokens(request)
      IN  /\ calls[c].worker # "none" <=> new_tokens >= MinNewTokens
          /\ calls[c].worker # "none" =>
               RequestPromptLength(request) + new_tokens + GenerationReserve
                 <= request.params.context_window
          /\ new_tokens < MinNewTokens =>
               /\ calls[c].delivered = <<ContextFullError>>
               /\ calls[c].produced = <<>>
               /\ calls[c].queue = <<>>

\* a call whose prompt leaves 4 tokens has come back with the error alone
C35_Witness ==
  \E c \in Calls :
    /\ calls[c].outcome = "full"
    /\ RequestNewTokens(calls[c].request) = 4
    /\ calls[c].delivered = <<ContextFullError>>
    /\ calls[c].pc = "returned"

\* ------------------------------------------------ claims on the loader
\* C36: model_loaded is true only while the model and the tokenizer are
\* both set
C36_LoadedImpliesSet ==
  model_loaded => (model = "set" /\ tokenizer = "set")

\* ------------------------------------------- claims on the context files
\* the content the files hold under a name, where every write went through
\* the manager
Written(name) ==
  IF FindFile(store, name) = NoPath THEN NoContent ELSE store[FindFile(store, name)]

\* C37: a load that reads without an I/O error returns the content last
\* written to the name, and nothing once the name is deleted, whether or
\* not the cache is used
C37_LoadReturnsWritten ==
  [][ (last'.op = "load_context_file" /\ last'.read)
        => last'.content = Written(last'.name) ]_vars

\* ------------------------------------------------- claims on the exports
\* C38: export_session, with or without a session id, and
\* estimate_context_usage leave the current session, the message counter
\* and the warned flag as they were
C38_ReadsLeaveSessionAlone ==
  [][ (last'.op = "export" \/ last'.op = "usage")
        => /\ current_session' = current_session
           /\ message_count' = message_count
           /\ context_warning_shown' = context_warning_shown ]_vars

\* ------------------------------------------------ claims on session ids
\* C39: create_session returns an id that neither the session it replaces
\* nor any saved record has, so that a save of the new session cannot fall
\* on the record of another one
C39_CreateGivesFreshId ==
  [][ CreateStep
        => /\ current_session'.id \notin DOMAIN records
           /\ current_session # None => current_session'.id # current_session.id ]_vars

====
